---- MODULE Spec2Model ----
(***************************************************************************)
(* State-machine model of the two news scrapers of the repository:         *)
(*   web.py  : class NewsScraperSetopati (scroll, collect links, then      *)
(*             extract each article; tenacity retries; driver restarts)    *)
(*   test.py : scrape_articles (listing page with teasers, one content     *)
(*             fetch per teaser)                                           *)
(* The browser (selenium), the page contents and the file system are the   *)
(* environment: every call into them either returns or raises, chosen      *)
(* nondeterministically.                                                   *)
(***************************************************************************)
EXTENDS Integers, Sequences, FiniteSets, TLC

(* ---- bounds of the exploration -------------------------------------- *)
\* largest number of elements a find_elements call returns
MaxListing == 2
\* largest max_scrolls argument explored
MaxScrolls == 2
\* number of injected environment failures (driver errors, creation
\* failures) in one run; timeouts of element waits are not counted
MaxFaults == 4
\* largest max_articles argument explored
MaxArticles == 2

(* ---- program constants ---------------------------------------------- *)
\* setup_driver: max_attempts = 3
max_attempts == 3
\* @retry(stop=stop_after_attempt(3), ...)
stop_after_attempt == 3

\* Python's None as the value of a record field
None == "None"

(* ---- hrefs ----------------------------------------------------------- *)
\* An href is the sequence of its components: the host first, then the
\* path segments / query values.  "https://other.com/?ref=setopati.com" is
\* <<"other.com", "setopati.com">>.  A missing href attribute (None) is the
\* empty sequence, which Python's truth test rejects like the empty string.
NoHref == << >>
Domain == "setopati.com"
Hrefs ==
    { <<"setopati.com", "a1">>,
      <<"other.com", "setopati.com">>,
      <<"other.com", "x">> }

\* what find_elements(By.CSS_SELECTOR, 'a.title') can return: the href
\* attributes of the elements found, in document order
ElemSeqs == UNION { [1..n -> Hrefs \cup {NoHref}] : n \in 0..MaxListing }

\* 'setopati.com' in href : Python substring test on the whole href
InHref(needle, href) == \E i \in 1..Len(href) : href[i] = needle

\* if href and 'setopati.com' in href
link_filter(href) == href # NoHref /\ InHref(Domain, href)

\* for link in links: ... article_links.add(href)  (the set)
add_links(set, elems) == set \cup { elems[i] : i \in { j \in 1..Len(elems) : link_filter(elems[j]) } }

\* the same loop, as the order in which hrefs entered the set
RECURSIVE add_in_order(_, _)
add_in_order(seq, elems) ==
    IF elems = << >> THEN seq
    ELSE LET h == Head(elems)
             known == { seq[i] : i \in 1..Len(seq) }
         IN  add_in_order(IF link_filter(h) /\ h \notin known THEN Append(seq, h) ELSE seq,
                          Tail(elems))

\* list(article_links): a list of the set's elements in the set's iteration
\* order, which for str keys depends on the per-process hash seed
list_of_set(S) ==
    { p \in [1..Cardinality(S) -> S] : \A i, j \in 1..Cardinality(S) : p[i] = p[j] => i = j }

\* variant of slice_to: an empty list is replaced by the site's front page
slice_or_front_page(seq, n) ==
    IF seq = << >> THEN << <<Domain>> >>
    ELSE SubSeq(seq, 1, IF n < Len(seq) THEN n ELSE Len(seq))

\* article_links[:max_articles]
slice_to(seq, n) == SubSeq(seq, 1, IF n < Len(seq) THEN n ELSE Len(seq))

(* ---- article pages --------------------------------------------------- *)
Fields == {"content", "title", "date", "category", "author"}
\* the waits of scrape_article outside the inner try: a timeout of any one
\* of them leaves the function
Required == {"content", "title", "date", "category"}

\* variant of article_record: no default for a missing author
article_record_no_default(url, missing) ==
    [ url      |-> url,
      title    |-> "title",
      date     |-> "date",
      content  |-> "content",
      category |-> "category",
      author   |-> IF "author" \in missing THEN None ELSE "author" ]

\* the dict built by scrape_article from a page on which the elements in
\* `missing` never appear (defined when no required element is missing)
article_record(url, missing) ==
    [ url      |-> url,
      title    |-> "title",
      date     |-> "date",
      content  |-> "content",
      category |-> "category",
      author   |-> IF "author" \in missing THEN "Unknown" ELSE "author" ]

(* ---- the listing page of test.py ------------------------------------- *)
\* base_url of test.py, as a host
BaseHost == "ekantipur.com"

\* A <div class="teaser offset">: whether it holds an <a> and a <p>, and the
\* href of the <a>.  A relative href starts with the component "/".
Teasers ==
    { [a |-> TRUE,  p |-> TRUE,  href |-> <<"ekantipur.com", "n1">>],
      [a |-> TRUE,  p |-> TRUE,  href |-> <<"/", "n2">>],
      [a |-> TRUE,  p |-> FALSE, href |-> <<"ekantipur.com", "n3">>],
      [a |-> FALSE, p |-> TRUE,  href |-> NoHref] }

\* the teaser divs of a listing page, in document order
TeaserSeqs == UNION { [1..n -> Teasers] : n \in 0..MaxListing }

\* soup.find_all('div', class_='teaser offset', limit=n): BeautifulSoup
\* stops at n results only when n is truthy, so limit=0 returns them all
find_all(divs, n) ==
    IF n = 0 \/ n >= Len(divs) THEN divs ELSE SubSeq(divs, 1, n)

\* if link.startswith('/'): link = base_url + link
absolute_link(href) == IF href[1] = "/" THEN <<BaseHost>> \o Tail(href) ELSE href

\* title_tag = article.find('a'); teaser = article.find('p').text.strip();
\* link = title_tag['href']  raise on a div without <p> or without <a>
teaser_parses(t) == t.a /\ t.p

\* the dict appended by scrape_articles (test.py:43-48)
listing_record(t, content) ==
    [ title   |-> "title",
      teaser  |-> "teaser",
      link    |-> absolute_link(t.href),
      content |-> content ]

(* ---- tenacity --------------------------------------------------------- *)
\* variant of should_stop: one attempt too many
should_stop_late(n) == n > stop_after_attempt

\* stop=stop_after_attempt(3): after the attempt numbered n has raised
should_stop(n) == n >= stop_after_attempt

VARIABLES
    variant,        \* "web" (web.py) or "listing" (test.py)
    pc,             \* position of the single thread of control
    created,        \* number of browser sessions created so far (ids 1..created)
    driver,         \* self.driver : session id, 0 before the first creation
    wait,           \* session the WebDriverWait self.wait is bound to, 0 if unset
    quitted,        \* sessions on which quit() has been called
    quitCalls,      \* number of driver.quit() invocations
    restarts,       \* number of restart_driver() calls
    attempt,        \* setup_driver: local variable attempt
    setupFrom,      \* caller of the running setup_driver: "init" or "restart"
    setupExhausted, \* setup_driver has raised "Failed to initialize WebDriver"
    faults,         \* injected environment failures so far
    max_scrolls,    \* argument of the get_article_links call in progress (0 outside)
    max_articles,   \* argument of scrape_website / scrape_articles
    op,             \* the retried call in progress: "none", "links", "article"
    opTry,          \* tenacity's attempt number within that call
    opOutcomes,     \* how each attempt of that call ended, in order
    opLog,          \* log entries written by the attempts of that call
    scroll,         \* get_article_links: loop variable scroll (0 outside an attempt)
    scrollWarnings, \* "Timeout while scrolling" warnings of the attempt (web.py:106)
    article_links,  \* get_article_links: the set article_links (empty outside an attempt)
    discovery,      \* the hrefs in the order the last attempt added them to the set
    collected,      \* value returned by get_article_links
    links,          \* scrape_website: article_links (after slicing)
    idx,            \* position of the for loop in links
    articles_data,  \* scrape_website: the list articles_data
    linkOutcome,    \* per link already handled by the loop: "ok" or "failed"
    failLog,        \* "Failed to scrape article" entries (web.py:199)
    sleeps,         \* number of time.sleep(2) calls of the for loop (web.py:197)
    articles,       \* scrape_articles: the teaser divs found on the listing page
    saved,          \* "no", "yes" (to_csv returned) or "error" (it raised)
    result          \* the records of the returned DataFrame / list

vars == << variant, pc, created, driver, wait, quitted, quitCalls, restarts,
           attempt, setupFrom, setupExhausted, faults, max_scrolls, max_articles,
           op, opTry, opOutcomes, opLog, scroll, scrollWarnings, article_links,
           discovery, collected, links, idx, articles_data, linkOutcome, failLog,
           sleeps, articles, saved, result >>

sessionVars == << created, driver, wait, quitted, quitCalls, restarts >>
setupVars   == << attempt, setupFrom, setupExhausted >>
inputVars   == << variant, max_articles >>
collectVars == << max_scrolls, scroll, scrollWarnings, article_links, discovery,
                 collected >>
loopVars    == << links, idx, articles_data, linkOutcome, failLog, sleeps,
                 articles >>
opVars      == << op, opTry, opOutcomes, opLog >>

\* the session behind self.driver accepts commands
DriverLive == driver # 0 /\ driver \notin quitted
\* the session behind self.wait accepts commands
WaitLive == wait # 0 /\ wait \notin quitted

\* how an attempt of a retried call can end, as recorded in opOutcomes
\*   "ok"              : it returned
\*   "ok_no_author"    : scrape_article returned after the author wait timed out
\*   "timeout"         : TimeoutException of driver.get or of the title, date
\*                       or category wait
\*   "timeout_content" : TimeoutException of the wait for the element of
\*                       class news-content
\*   "wde"             : another WebDriverException
\*   "other"           : any other Exception (urllib3, requests, ...)
\*   "setup"           : the Exception raised by setup_driver inside restart_driver
OkKinds == {"ok", "ok_no_author"}
FailKinds == {"timeout", "timeout_content", "wde", "other", "setup"}

\* variant of in_scroll_range: range(max_scrolls + 1)
in_scroll_range_inclusive == scroll <= max_scrolls

\* for scroll in range(max_scrolls): another iteration follows
in_scroll_range == scroll < max_scrolls

Init ==
    /\ variant \in {"web", "listing"}
    /\ pc = "setup"
    /\ created = 0
    /\ driver = 0
    /\ wait = 0
    /\ quitted = {}
    /\ quitCalls = 0
    /\ restarts = 0
    /\ attempt = 0
    /\ setupFrom = "init"
    /\ setupExhausted = FALSE
    /\ faults = 0
    /\ max_scrolls = 0
    /\ max_articles \in 0..MaxArticles
    /\ op = "none"
    /\ opTry = 0
    /\ opOutcomes = << >>
    /\ opLog = 0
    /\ scroll = 0
    /\ scrollWarnings = 0
    /\ article_links = {}
    /\ discovery = << >>
    /\ collected = << >>
    /\ links = << >>
    /\ idx = 0
    /\ articles_data = << >>
    /\ linkOutcome = << >>
    /\ failLog = 0
    /\ sleeps = 0
    /\ articles = << >>
    /\ saved = "no"
    /\ result = << >>


(* ---- the environment -------------------------------------------------- *)
\* A call into the browser raises a driver-level or an unexpected error:
\* always possible on a session that was quit, and otherwise an injected
\* failure counted against MaxFaults.
browser_fails(live) ==
    \/ /\ ~live
       /\ UNCHANGED faults
    \/ /\ live
       /\ faults < MaxFaults
       /\ faults' = faults + 1

(* ---- tenacity: what follows an attempt that raised -------------------- *)
\* variant of attempt_raised: the handler inside the for loop leaves the
\* loop (break) instead of going on with the next url
attempt_raised_break(kind) ==
    /\ opOutcomes' = Append(opOutcomes, kind)
    /\ IF ~should_stop(opTry)
       THEN /\ opTry' = opTry + 1
            /\ pc' = op
            /\ UNCHANGED << op, loopVars, result >>
       ELSE IF op = "links"
            THEN /\ pc' = "finally"
                 /\ result' = << >>
                 /\ UNCHANGED << op, opTry, loopVars >>
            ELSE /\ pc' = "save"
                 /\ failLog' = failLog + 1
                 /\ linkOutcome' = Append(linkOutcome, "failed")
                 /\ UNCHANGED << op, opTry, links, idx, articles_data, sleeps, articles,
                                 result >>

\* @retry(stop=stop_after_attempt(3)) retries on every Exception and raises
\* RetryError once the stop condition holds.  RetryError from
\* get_article_links reaches `except Exception` of scrape_website
\* (web.py:216-218); from scrape_article it reaches the handler inside the
\* for loop (web.py:198-200).
attempt_raised(kind) ==
    /\ opOutcomes' = Append(opOutcomes, kind)
    /\ IF ~should_stop(opTry)
       THEN /\ opTry' = opTry + 1
            /\ pc' = op
            /\ UNCHANGED << op, loopVars, result >>
       ELSE IF op = "links"
            THEN /\ pc' = "finally"
                 /\ result' = << >>
                 /\ UNCHANGED << op, opTry, loopVars >>
            ELSE /\ pc' = "loop"
                 /\ failLog' = failLog + 1
                 /\ linkOutcome' = Append(linkOutcome, "failed")
                 /\ UNCHANGED << op, opTry, links, idx, articles_data, sleeps, articles,
                                 result >>

(* ---- restart_driver (web.py:120-126) ---------------------------------- *)
\* variant of restart_driver: the old session is not quit
restart_driver_no_quit ==
    /\ restarts' = restarts + 1
    /\ attempt' = 0
    /\ setupFrom' = "restart"
    /\ pc' = "setup"
    /\ UNCHANGED << created, driver, wait, quitted, quitCalls, setupExhausted >>

\* try: self.driver.quit() except: pass ; then self.setup_driver() starts
restart_driver ==
    /\ quitCalls' = quitCalls + 1
    /\ quitted' = quitted \cup {driver}
    /\ restarts' = restarts + 1
    /\ attempt' = 0
    /\ setupFrom' = "restart"
    /\ pc' = "setup"
    /\ UNCHANGED << created, driver, wait, setupExhausted >>

(* ---- setup_driver (web.py:53-73) -------------------------------------- *)
\* one iteration of the while loop in which nothing raises
setup_driver_ok ==
    /\ variant = "web"
    /\ pc = "setup"
    /\ created' = created + 1
    /\ driver' = created + 1
    /\ wait' = created + 1
    /\ UNCHANGED << quitted, quitCalls, restarts, setupVars, faults, inputVars,
                    collectVars, opLog, saved >>
    /\ IF setupFrom = "init"
       THEN /\ pc' = "start"
            /\ UNCHANGED << op, opTry, opOutcomes, loopVars, result >>
       ELSE \* restart_driver returns; `raise` re-raises the WebDriverException
            attempt_raised("wde")

\* variant of setup_driver_fail: the loop goes round again without counting
\* the attempt (no attempt += 1)
setup_driver_fail_uncounted ==
    /\ variant = "web"
    /\ pc = "setup"
    /\ faults < MaxFaults
    /\ faults' = faults + 1
    /\ \E partial \in BOOLEAN :
          /\ created' = IF partial THEN created + 1 ELSE created
          /\ driver' = IF partial THEN created + 1 ELSE driver
    /\ pc' = "setup"
    /\ UNCHANGED << wait, quitted, quitCalls, restarts, setupVars, inputVars,
                    collectVars, opVars, loopVars, saved, result >>

\* one iteration in which something raises: before webdriver.Chrome returned
\* (partial = FALSE) or after self.driver was assigned (partial = TRUE)
setup_driver_fail ==
    /\ variant = "web"
    /\ pc = "setup"
    /\ faults < MaxFaults
    /\ faults' = faults + 1
    /\ \E partial \in BOOLEAN :
          /\ created' = IF partial THEN created + 1 ELSE created
          /\ driver' = IF partial THEN created + 1 ELSE driver
    /\ attempt' = attempt + 1
    /\ UNCHANGED << wait, quitted, quitCalls, restarts, setupFrom, inputVars,
                    collectVars, opLog, saved >>
    /\ IF attempt + 1 = max_attempts
       THEN \* raise Exception("Failed to initialize WebDriver ...")
            /\ setupExhausted' = TRUE
            /\ IF setupFrom = "init"
               THEN /\ pc' = "aborted"
                    /\ UNCHANGED << op, opTry, opOutcomes, loopVars, result >>
               ELSE attempt_raised("setup")
       ELSE /\ pc' = "setup"
            /\ UNCHANGED << setupExhausted, op, opTry, opOutcomes, loopVars, result >>

(* ---- scrape_website (web.py:178-224) ---------------------------------- *)
\* entry: the call self.get_article_links(base_url), first attempt; the
\* model lets the call pass any max_scrolls up to MaxScrolls
scrape_website_start ==
    /\ pc = "start"
    /\ variant = "web"
    /\ op' = "links"
    /\ opTry' = 1
    /\ opOutcomes' = << >>
    /\ opLog' = 0
    /\ pc' = "links"
    /\ max_scrolls' \in 0..MaxScrolls
    /\ UNCHANGED << sessionVars, setupVars, faults, inputVars, scroll,
                    scrollWarnings, article_links, discovery, collected, loopVars,
                    saved, result >>

(* ---- get_article_links (web.py:75-118) -------------------------------- *)
\* article_links = set(); self.driver.get(url) returns
links_get_ok ==
    /\ pc = "links"
    /\ DriverLive
    /\ article_links' = {}
    /\ discovery' = << >>
    /\ scroll' = 0
    /\ scrollWarnings' = 0
    /\ pc' = "scroll"
    /\ UNCHANGED << sessionVars, setupVars, faults, inputVars, max_scrolls,
                    collected, opVars, loopVars, saved, result >>

\* except WebDriverException (web.py:112-115): log, restart_driver().
\* Reached from driver.get (its TimeoutException is a WebDriverException
\* too) and from any call of a scroll iteration that raises a
\* WebDriverException other than TimeoutException.
links_wde ==
    /\ pc \in {"links", "scroll"}
    /\ pc = "scroll" => in_scroll_range
    /\ browser_fails(DriverLive /\ (pc = "scroll" => WaitLive))
    /\ opLog' = opLog + 1
    /\ restart_driver
    /\ scroll' = 0
    /\ scrollWarnings' = 0
    /\ article_links' = {}
    /\ discovery' = << >>
    /\ UNCHANGED << inputVars, max_scrolls, collected, op, opTry, opOutcomes,
                    loopVars, saved, result >>

\* except Exception (web.py:116-118): log, raise
links_other ==
    /\ pc \in {"links", "scroll"}
    /\ pc = "scroll" => in_scroll_range
    /\ browser_fails(DriverLive /\ (pc = "scroll" => WaitLive))
    /\ opLog' = opLog + 1
    /\ scroll' = 0
    /\ scrollWarnings' = 0
    /\ article_links' = {}
    /\ discovery' = << >>
    /\ attempt_raised("other")
    /\ UNCHANGED << sessionVars, setupVars, inputVars, max_scrolls, collected,
                    saved >>

\* one iteration of the scroll loop in which the wait returns
\* (web.py:87-103)
scroll_ok ==
    /\ pc = "scroll"
    /\ in_scroll_range
    /\ DriverLive /\ WaitLive
    /\ \E elems \in ElemSeqs :
          /\ Len(elems) > Cardinality(article_links)
          /\ article_links' = add_links(article_links, elems)
          /\ discovery' = add_in_order(discovery, elems)
    /\ scroll' = scroll + 1
    /\ UNCHANGED << pc, sessionVars, setupVars, faults, inputVars, max_scrolls,
                    scrollWarnings, collected, opVars, loopVars, saved, result >>

\* variant of scroll_timeout: the handler logs and raises again, as the
\* TimeoutException handler of scrape_article does
scroll_timeout_raise ==
    /\ pc = "scroll"
    /\ in_scroll_range
    /\ DriverLive /\ WaitLive
    /\ scrollWarnings' = scrollWarnings + 1
    /\ scroll' = 0
    /\ article_links' = {}
    /\ discovery' = << >>
    /\ attempt_raised("timeout")
    /\ UNCHANGED << sessionVars, setupVars, faults, inputVars, max_scrolls,
                    collected, opLog, saved >>

\* one iteration in which execute_script or the wait raises
\* TimeoutException (web.py:105-107): warning, continue
scroll_timeout ==
    /\ pc = "scroll"
    /\ in_scroll_range
    /\ DriverLive /\ WaitLive
    /\ scroll' = scroll + 1
    /\ scrollWarnings' = scrollWarnings + 1
    /\ UNCHANGED << pc, sessionVars, setupVars, faults, inputVars, max_scrolls,
                    article_links, discovery, collected, opVars, loopVars, saved,
                    result >>

\* the loop is over: logging.info(...); return list(article_links)
links_return ==
    /\ pc = "scroll"
    /\ ~in_scroll_range
    /\ opLog' = opLog + 1
    /\ opOutcomes' = Append(opOutcomes, "ok")
    /\ collected' \in list_of_set(article_links)
    /\ pc' = "got_links"
    /\ scroll' = 0
    /\ scrollWarnings' = 0
    /\ article_links' = {}
    /\ UNCHANGED << sessionVars, setupVars, faults, inputVars, max_scrolls,
                    discovery, op, opTry, loopVars, saved, result >>

\* article_links = self.get_article_links(base_url)[:max_articles]
\* if not article_links: ... return pd.DataFrame()   (web.py:184-191)
website_got_links ==
    /\ pc = "got_links"
    /\ links' = slice_to(collected, max_articles)
    /\ idx' = 0
    /\ articles_data' = << >>
    /\ result' = << >>
    /\ pc' = IF links' = << >> THEN "finally" ELSE "loop"
    /\ max_scrolls' = 0
    /\ UNCHANGED << sessionVars, setupVars, faults, inputVars, scroll,
                    scrollWarnings, article_links, discovery, collected, opVars,
                    linkOutcome, failLog, sleeps, articles, saved >>

\* for url in article_links: the next url, or the end of the loop
website_loop ==
    /\ pc = "loop"
    /\ IF idx < Len(links)
       THEN /\ idx' = idx + 1
            /\ op' = "article"
            /\ opTry' = 1
            /\ opOutcomes' = << >>
            /\ opLog' = 0
            /\ pc' = "article"
       ELSE /\ pc' = "save"
            /\ UNCHANGED << idx, opVars >>
    /\ UNCHANGED << sessionVars, setupVars, faults, inputVars, collectVars,
                    links, articles_data, linkOutcome, failLog, sleeps, articles,
                    saved, result >>

(* ---- scrape_article (web.py:128-176) ---------------------------------- *)
\* every required wait returns; the author wait returns or times out;
\* back in scrape_website the dict is appended (web.py:194-197)
article_ok ==
    /\ pc = "article"
    /\ DriverLive /\ WaitLive
    /\ \E missing \in SUBSET Fields :
          /\ missing \cap Required = {}
          /\ articles_data' = Append(articles_data, article_record(links[idx], missing))
          /\ opOutcomes' = Append(opOutcomes, IF "author" \in missing THEN "ok_no_author" ELSE "ok")
    /\ opLog' = opLog + 1
    /\ linkOutcome' = Append(linkOutcome, "ok")
    /\ sleeps' = sleeps + 1
    /\ pc' = "loop"
    /\ UNCHANGED << sessionVars, setupVars, faults, inputVars, collectVars,
                    op, opTry, links, idx, failLog, articles, saved, result >>

\* variant of article_timeout: the dict built so far is returned instead
\* of the TimeoutException being raised again
article_timeout_partial ==
    /\ pc = "article"
    /\ DriverLive /\ WaitLive
    /\ opLog' = opLog + 1
    /\ opOutcomes' = Append(opOutcomes, "timeout")
    /\ articles_data' = Append(articles_data,
          [article_record(links[idx], {}) EXCEPT !.title = None])
    /\ linkOutcome' = Append(linkOutcome, "ok")
    /\ sleeps' = sleeps + 1
    /\ pc' = "loop"
    /\ UNCHANGED << sessionVars, setupVars, faults, inputVars, collectVars,
                    op, opTry, links, idx, failLog, articles, saved, result >>

\* driver.get or a required wait raises TimeoutException
\* (web.py:167-169): log, raise
article_timeout ==
    /\ pc = "article"
    /\ DriverLive /\ WaitLive
    /\ opLog' = opLog + 1
    /\ \E first \in Required \cup {"get"} :
          \* the first call to time out: driver.get, or the wait for a
          \* required element that the page lacks
          attempt_raised(IF first = "content" THEN "timeout_content" ELSE "timeout")
    /\ UNCHANGED << sessionVars, setupVars, faults, inputVars, collectVars, saved >>

\* except WebDriverException (web.py:170-173): log, restart_driver()
article_wde ==
    /\ pc = "article"
    /\ browser_fails(DriverLive /\ WaitLive)
    /\ opLog' = opLog + 1
    /\ restart_driver
    /\ UNCHANGED << inputVars, collectVars, op, opTry, opOutcomes, loopVars,
                    saved, result >>

\* except Exception (web.py:174-176): log, raise
article_other ==
    /\ pc = "article"
    /\ browser_fails(DriverLive /\ WaitLive)
    /\ opLog' = opLog + 1
    /\ attempt_raised("other")
    /\ UNCHANGED << sessionVars, setupVars, inputVars, collectVars, saved >>

(* ---- the end of scrape_website ---------------------------------------- *)
\* df = pd.DataFrame(articles_data); to_csv when not empty; return df
\* (web.py:202-214)
website_save ==
    /\ pc = "save"
    /\ IF articles_data = << >>
       THEN saved' = "no"
       ELSE saved' \in {"yes", "error"}
    /\ result' = articles_data
    /\ pc' = "finally"
    /\ UNCHANGED << sessionVars, setupVars, faults, inputVars, collectVars,
                    opVars, loopVars >>

\* finally: try: self.driver.quit() except: pass   (web.py:220-224)
website_finally ==
    /\ pc = "finally"
    /\ variant = "web"
    /\ quitCalls' = quitCalls + 1
    /\ quitted' = quitted \cup {driver}
    /\ pc' = "done"
    /\ UNCHANGED << created, driver, wait, restarts, setupVars, faults, inputVars,
                    collectVars, opVars, loopVars, saved, result >>

(* ---- test.py: scrape_articles (test.py:21-63) ------------------------- *)
\* driver = setup_driver()  (test.py:9-18): one creation, no retry; when it
\* raises, scrape_articles raises before anything else happened
listing_setup ==
    /\ variant = "listing"
    /\ pc = "setup"
    /\ \/ /\ created' = created + 1
          /\ driver' = created + 1
          /\ pc' = "listing_get"
          /\ UNCHANGED << faults, setupExhausted >>
       \/ /\ faults < MaxFaults
          /\ faults' = faults + 1
          /\ pc' = "aborted"
          /\ UNCHANGED << created, driver, setupExhausted >>
    /\ UNCHANGED << wait, quitted, quitCalls, restarts, attempt, setupFrom,
                    inputVars, collectVars, opVars, loopVars, saved, result >>

\* driver.get(news_url); all_articles = []  (test.py:23-24, before the try)
listing_get ==
    /\ pc = "listing_get"
    /\ \/ /\ pc' = "listing_parse"
          /\ UNCHANGED faults
       \/ /\ browser_fails(DriverLive)
          /\ pc' = "raised"
    /\ UNCHANGED << sessionVars, setupVars, inputVars, collectVars, opVars,
                    loopVars, saved, result >>

\* soup = BeautifulSoup(driver.page_source, ...); articles = soup.find_all(...)
\* (test.py:27-31); an exception here leaves through the finally
listing_parse ==
    /\ pc = "listing_parse"
    /\ \/ /\ \E divs \in TeaserSeqs : articles' = find_all(divs, max_articles)
          /\ idx' = 0
          /\ pc' = "teaser_loop"
          /\ UNCHANGED faults
       \/ /\ browser_fails(DriverLive)
          /\ pc' = "listing_finally_raise"
          /\ UNCHANGED << articles, idx >>
    /\ UNCHANGED << sessionVars, setupVars, inputVars, collectVars, opVars,
                    links, articles_data, linkOutcome, failLog, sleeps, saved,
                    result >>

\* one iteration of `for article in articles` whose body raises
\* (test.py:33-50): the div does not parse, or driver.get(url) in
\* scrape_article_content raises; the except prints and the loop goes on
teaser_fails ==
    /\ pc = "teaser_loop"
    /\ idx < Len(articles)
    /\ \/ /\ ~teaser_parses(articles[idx + 1])
          /\ UNCHANGED faults
       \/ /\ teaser_parses(articles[idx + 1])
          /\ browser_fails(DriverLive)
    /\ idx' = idx + 1
    /\ failLog' = failLog + 1
    /\ linkOutcome' = Append(linkOutcome, "failed")
    /\ UNCHANGED << pc, sessionVars, setupVars, inputVars, collectVars, opVars,
                    links, articles_data, sleeps, articles, saved, result >>

\* one iteration whose body completes: scrape_article_content returns the
\* joined paragraphs, or None when the content div is absent or reading the
\* page raised (test.py:69-83), and the dict is appended
teaser_ok ==
    /\ pc = "teaser_loop"
    /\ idx < Len(articles)
    /\ teaser_parses(articles[idx + 1])
    /\ DriverLive
    /\ \E content \in {"content", None} :
          articles_data' = Append(articles_data, listing_record(articles[idx + 1], content))
    /\ idx' = idx + 1
    /\ linkOutcome' = Append(linkOutcome, "ok")
    /\ UNCHANGED << pc, sessionVars, setupVars, faults, inputVars, collectVars,
                    opVars, links, failLog, sleeps, articles, saved, result >>

\* the loop is over
teaser_loop_end ==
    /\ pc = "teaser_loop"
    /\ idx >= Len(articles)
    /\ pc' = "listing_finally"
    /\ UNCHANGED << sessionVars, setupVars, faults, inputVars, collectVars,
                    opVars, loopVars, saved, result >>

\* finally: driver.quit(); then return all_articles, or the exception of
\* the try body goes on  (test.py:60-63)
listing_finally ==
    /\ pc \in {"listing_finally", "listing_finally_raise"}
    /\ quitCalls' = quitCalls + 1
    /\ quitted' = quitted \cup {driver}
    /\ IF pc = "listing_finally"
       THEN /\ result' = articles_data
            /\ pc' = "listing_save"
       ELSE /\ pc' = "raised"
            /\ UNCHANGED result
    /\ UNCHANGED << created, driver, wait, restarts, setupVars, faults, inputVars,
                    collectVars, opVars, loopVars, saved >>

\* save_articles(articles) called by the main block (test.py:86-96): open
\* and json.dump, with no handler around them nor around the call
save_articles ==
    /\ pc = "listing_save"
    /\ \/ /\ saved' = "yes"
          /\ pc' = "done"
       \/ /\ saved' = "error"
          /\ pc' = "raised"
    /\ UNCHANGED << sessionVars, setupVars, faults, inputVars, collectVars,
                    opVars, loopVars, result >>

Next ==
    \/ setup_driver_ok
    \/ setup_driver_fail
    \/ scrape_website_start
    \/ links_get_ok
    \/ links_wde
    \/ links_other
    \/ scroll_ok
    \/ scroll_timeout
    \/ links_return
    \/ website_got_links
    \/ website_loop
    \/ article_ok
    \/ article_timeout
    \/ article_wde
    \/ article_other
    \/ website_save
    \/ website_finally
    \/ listing_setup
    \/ listing_get
    \/ listing_parse
    \/ teaser_fails
    \/ teaser_ok
    \/ teaser_loop_end
    \/ listing_finally
    \/ save_articles

Spec == Init /\ [][Next]_vars


(***************************************************************************)
(* Properties                                                              *)
(***************************************************************************)
Last(seq) == seq[Len(seq)]
Range(seq) == { seq[i] : i \in 1..Len(seq) }
\* the host part of an href: its first component
Host(href) == href[1]
NoDuplicates(seq) == \A i, j \in 1..Len(seq) : seq[i] = seq[j] => i = j

\* positions 1..n of linkOutcome that are "ok", in order
RECURSIVE OkPositions(_)
OkPositions(n) ==
    IF n = 0 THEN << >>
    ELSE IF linkOutcome[n] = "ok" THEN Append(OkPositions(n - 1), n)
         ELSE OkPositions(n - 1)

NumFailed == Cardinality({ i \in 1..Len(linkOutcome) : linkOutcome[i] = "failed" })

\* the for loop of the orchestrator is over
LoopOver ==
    \/ variant = "web" /\ pc \in {"save", "finally", "done"}
    \/ variant = "listing" /\ pc \in {"listing_finally", "listing_save", "done"}

\* the retried call in progress has returned
CallReturned == opOutcomes # << >> /\ Last(opOutcomes) \in OkKinds

\* get_article_links has raised tenacity's RetryError into scrape_website
LinksRaised ==
    /\ variant = "web"
    /\ op = "links"
    /\ pc \in {"finally", "done"}
    /\ opOutcomes # << >>
    /\ Last(opOutcomes) \in FailKinds

\* C1: every link is handled by the loop, in order, whatever happened to
\* the links before it; the result holds exactly one record per link whose
\* extraction succeeded, in link order, and the orchestrator logged one
\* failure per failed link.
C1_BatchSurvivesFailures ==
    LET oks == OkPositions(Len(linkOutcome)) IN
    /\ Len(articles_data) = Len(oks)
    /\ failLog = NumFailed
    /\ variant = "web" =>
          /\ pc = "article" => idx = Len(linkOutcome) + 1
          /\ \A k \in 1..Len(oks) : articles_data[k].url = links[oks[k]]
          /\ LoopOver => Len(linkOutcome) = Len(links)
    /\ variant = "listing" =>
          /\ idx = Len(linkOutcome)
          /\ \A k \in 1..Len(oks) :
                articles_data[k].link = absolute_link(articles[oks[k]].href)
          /\ LoopOver => Len(linkOutcome) = Len(articles)
    /\ pc = "done" => result = articles_data

\* a run in which the first of two links failed for good and the second
\* was extracted
C1_Witness ==
    /\ variant = "web"
    /\ pc = "done"
    /\ linkOutcome = << "failed", "ok" >>
    /\ Len(result) = 1
    /\ failLog = 1

\* C2 as stated: when scrape_website has returned, driver.quit was invoked
\* exactly once.
C2_QuitExactlyOnce ==
    (variant = "web" /\ pc = "done") => quitCalls = 1

\* C2 amended: driver.quit is invoked once by every restart_driver call and
\* exactly once more by the finally block of scrape_website.
C2_QuitOncePlusRestarts ==
    variant = "web" =>
        /\ pc = "done" => quitCalls = restarts + 1
        /\ pc # "done" => quitCalls = restarts

\* a run that returned after at least one restart
C2_Witness ==
    /\ variant = "web"
    /\ pc = "done"
    /\ restarts >= 1
    /\ result # << >>

\* C3: a retried call makes at most 3 attempts and none after the first
\* success; each attempt writes one attempt log entry; when the first two
\* attempts end in a driver error and the third returns, the call returns the
\* third attempt's result after exactly 3 attempts and 3 log entries.
C3_RetryUntilThirdAttempt ==
    variant = "web" =>
        /\ opTry <= stop_after_attempt
        /\ Len(opOutcomes) <= stop_after_attempt
        /\ \A i \in 1..Len(opOutcomes) : opOutcomes[i] \in OkKinds => i = Len(opOutcomes)
        /\ CallReturned => opTry = Len(opOutcomes) /\ opLog = Len(opOutcomes)
        /\ (CallReturned /\ Len(opOutcomes) = 3 /\ opOutcomes[1] = "wde" /\ opOutcomes[2] = "wde") =>
              /\ opTry = 3
              /\ opLog = 3
              /\ (op = "links" /\ pc = "got_links") => Range(collected) = Range(discovery)
              /\ (op = "article" /\ pc = "loop") =>
                    /\ linkOutcome[idx] = "ok"
                    /\ Last(articles_data).url = links[idx]

\* a call whose first two attempts raised a driver error and whose third
\* returned
C3_Witness ==
    /\ variant = "web"
    /\ op = "article"
    /\ pc = "loop"
    /\ Len(opOutcomes) = 3
    /\ opOutcomes[1] = "wde"
    /\ opOutcomes[2] = "wde"
    /\ opOutcomes[3] \in OkKinds

\* C4: setup_driver makes at most 3 creation attempts, and once it has
\* raised no attempt of get_article_links or scrape_article is in progress
\* any more.
C4_ExhaustedSetupAborts ==
    variant = "web" =>
        /\ attempt <= max_attempts
        /\ setupExhausted => pc \notin {"links", "scroll", "article"}

C6_MissingContentStillExtracts ==
    variant = "web" =>
        \A i \in 1..Len(opOutcomes) : opOutcomes[i] # "timeout_content"

\* C7: when link collection yielded no link, scrape_article is never
\* called and the result is empty.
C7_NoLinksNoExtraction ==
    (variant = "web" /\ collected = << >>) =>
        /\ op # "article"
        /\ pc # "article"
        /\ articles_data = << >>
        /\ result = << >>

\* get_article_links returned no link and the run is over
C7_Witness ==
    /\ variant = "web"
    /\ pc = "done"
    /\ op = "links"
    /\ CallReturned
    /\ collected = << >>

\* C8: get_article_links returns no URL twice and only URLs whose host is
\* the target domain.
C8_OnlyTargetHost ==
    /\ NoDuplicates(collected)
    /\ \A i \in 1..Len(collected) : Host(collected[i]) = Domain

\* C9 as stated: called with max_scrolls = 0, get_article_links does not
\* raise.
C9_ZeroScrollsNeverRaises ==
    max_scrolls = 0 => ~LinksRaised

\* C9 amended: with max_scrolls = 0 no scroll iteration is made and every
\* attempt whose navigation succeeded returns the empty collection; the call
\* raises only when each of its 3 attempts failed in the navigation or in
\* the restart that follows it.
C9_ZeroScrollsEmptyOrNavigationFailure ==
    (variant = "web" /\ op = "links" /\ max_scrolls = 0) =>
        /\ article_links = {}
        /\ scroll = 0
        /\ pc = "got_links" => collected = << >>
        /\ LinksRaised =>
              /\ Len(opOutcomes) = stop_after_attempt
              /\ \A i \in 1..Len(opOutcomes) : opOutcomes[i] \in {"wde", "other", "setup"}

\* a call with max_scrolls = 0 that returned after a failed attempt
C9_Witness ==
    /\ variant = "web"
    /\ pc = "got_links"
    /\ max_scrolls = 0
    /\ Len(opOutcomes) >= 2
    /\ collected = << >>

\* C10: when the author wait times out on a page that has every required
\* element, the attempt returns a record with author "Unknown" and the
\* extracted other fields, and no further attempt is made.
C10_AuthorDefaultsToUnknown ==
    variant = "web" =>
        /\ \A i \in 1..Len(opOutcomes) :
              opOutcomes[i] = "ok_no_author" => i = Len(opOutcomes)
        /\ (op = "article" /\ pc = "loop" /\ opOutcomes # << >> /\ Last(opOutcomes) = "ok_no_author") =>
              /\ linkOutcome[idx] = "ok"
              /\ Last(articles_data) =
                    [ url |-> links[idx], title |-> "title", date |-> "date",
                      content |-> "content", category |-> "category",
                      author |-> "Unknown" ]

\* an extraction that returned on its first attempt without an author
C10_Witness ==
    /\ variant = "web"
    /\ op = "article"
    /\ pc = "loop"
    /\ opOutcomes = << "ok_no_author" >>
    /\ Last(articles_data).author = "Unknown"

(* ---- termination ------------------------------------------------------ *)
\* the run is over: scrape_website / scrape_articles and the save have
\* returned ("done"), or an exception left the program
Terminated == pc \in {"done", "aborted", "raised"}

\* iterations the running setup_driver can still make
SetupLeft == max_attempts - attempt
\* steps of one scrape_article attempt: the attempt itself and the
\* iterations of the setup_driver call of a restart
ArticleAttempt == 1 + max_attempts
\* steps spent on one url: the loop step and stop_after_attempt attempts
ArticleCost == 1 + stop_after_attempt * ArticleAttempt
\* steps of the for loop still to come, and of what follows it
LoopLeft == (Len(links) - idx) * ArticleCost + 3
\* steps of one get_article_links attempt called with max_scrolls = ms
LinksAttempt(ms) == ms + 2 + max_attempts
\* steps that follow the return of get_article_links: the page offers
\* finitely many hrefs that pass the filter
AfterLinks == Cardinality({ h \in Hrefs : link_filter(h) }) * ArticleCost + 4

\* an upper bound of the number of steps the run can still take, computed
\* from the loop and retry limits of the code alone (not from the number of
\* failures the environment has injected or may still inject)
Rank ==
    IF variant = "listing"
    THEN CASE pc = "setup" -> MaxListing + 6
           [] pc = "listing_get" -> MaxListing + 5
           [] pc = "listing_parse" -> MaxListing + 4
           [] pc = "teaser_loop" -> (Len(articles) - idx) + 3
           [] pc = "listing_finally" -> 2
           [] pc \in {"listing_finally_raise", "listing_save"} -> 1
           [] OTHER -> 0
    ELSE CASE pc = "setup" /\ setupFrom = "init" ->
                SetupLeft + stop_after_attempt * LinksAttempt(MaxScrolls) + AfterLinks + 1
           [] pc = "start" ->
                stop_after_attempt * LinksAttempt(MaxScrolls) + AfterLinks + 1
           [] pc = "setup" /\ setupFrom = "restart" /\ op = "links" ->
                SetupLeft + (stop_after_attempt - opTry) * LinksAttempt(max_scrolls) + AfterLinks
           [] pc = "links" ->
                LinksAttempt(max_scrolls)
                + (stop_after_attempt - opTry) * LinksAttempt(max_scrolls) + AfterLinks
           [] pc = "scroll" ->
                (max_scrolls - scroll) + 1 + max_attempts
                + (stop_after_attempt - opTry) * LinksAttempt(max_scrolls) + AfterLinks
           [] pc = "got_links" -> Len(collected) * ArticleCost + 4
           [] pc = "setup" /\ setupFrom = "restart" /\ op = "article" ->
                SetupLeft + (stop_after_attempt - opTry) * ArticleAttempt + LoopLeft
           [] pc = "article" ->
                ArticleAttempt + (stop_after_attempt - opTry) * ArticleAttempt + LoopLeft
           [] pc = "loop" -> LoopLeft
           [] pc = "save" -> 2
           [] pc = "finally" -> 1
           [] OTHER -> 0

\* C11: every run terminates whatever the pattern of driver failures,
\* timeouts and missing elements: the number of steps still possible,
\* bounded by the limits of session creation, of each retried call, of the
\* scroll loop and of the article loop, is a natural number that every step
\* decreases, it is 0 only when the run is over, and a run that is not over
\* can always take a step.
C11_EveryRunTerminates ==
    /\ [](Rank \in Nat /\ (Rank = 0 <=> Terminated) /\ (~Terminated => ENABLED Next))
    /\ [][Rank' < Rank]_vars

\* a run that returned after a restart whose setup_driver gave up and after
\* an article whose three attempts failed
C11_Witness ==
    /\ variant = "web"
    /\ pc = "done"
    /\ setupExhausted
    /\ restarts > 0
    /\ failLog > 0

(* ---- saving ----------------------------------------------------------- *)
\* C12: a failure while writing the output file does not end the run with
\* an exception, and the run returns every extracted record unchanged.
C12_SaveFailureNonFatal ==
    saved = "error" =>
        /\ pc # "raised"
        /\ pc = "done" => result = articles_data

(* ---- exhausted retries ------------------------------------------------ *)
DriverKinds == {"wde", "setup"}
ArticleKinds == {"timeout", "timeout_content"}
\* scrape_article has raised RetryError into the for loop, every attempt
\* having ended with an outcome in kinds
Exhausted(kinds) ==
    /\ variant = "web"
    /\ op = "article"
    /\ pc = "loop"
    /\ Len(opOutcomes) = stop_after_attempt
    /\ \A i \in 1..Len(opOutcomes) : opOutcomes[i] \in kinds

\* C13: after an extraction whose attempts all failed at article level the
\* url is skipped and the loop goes on; after one whose attempts all failed
\* at driver level no later article is attempted.
C13_DriverExhaustionAborts ==
    /\ [](Exhausted(ArticleKinds) => linkOutcome[idx] = "failed")
    /\ [][Exhausted(DriverKinds) => pc' # "article"]_vars

(* ---- the scroll loop -------------------------------------------------- *)
\* C14: a step that logs the scroll timeout warning moves to the next scroll
\* iteration of the same attempt, keeps the links collected so far, and
\* neither restarts the session nor ends the attempt; an attempt returns
\* only after exactly max_scrolls iterations.
C14_ScrollTimeoutTolerated ==
    [][ /\ scrollWarnings' = scrollWarnings + 1 =>
              /\ pc = "scroll" /\ pc' = "scroll"
              /\ scroll' = scroll + 1
              /\ article_links' = article_links
              /\ discovery' = discovery
              /\ restarts' = restarts
              /\ quitCalls' = quitCalls
              /\ driver' = driver /\ wait' = wait
              /\ opTry' = opTry
              /\ opOutcomes' = opOutcomes
        /\ (pc = "scroll" /\ pc' = "got_links") => scroll = max_scrolls
        /\ (pc = "scroll" /\ pc' = "scroll") => scroll' = scroll + 1 /\ scroll' <= max_scrolls
      ]_vars

\* the end of a first attempt of two iterations, one of which timed out,
\* with the links of the other one
C14_Witness ==
    /\ pc = "scroll"
    /\ max_scrolls = 2
    /\ scroll = max_scrolls
    /\ scrollWarnings = 1
    /\ article_links # {}
    /\ opTry = 1
    /\ restarts = 0

(* ---- the links handed to extraction ----------------------------------- *)
\* C15: the links handed to extraction are the first max_articles collected
\* links in order of discovery, and at most max_articles teasers are
\* extracted.
C15_FirstDiscoveredFirst ==
    /\ (variant = "web" /\ pc \in {"loop", "article"}) =>
          /\ Len(links) <= max_articles
          /\ Len(links) = max_articles \/ Len(links) = Len(discovery)
          /\ \A i \in 1..Len(links) : links[i] = discovery[i]
    /\ (variant = "listing" /\ pc = "teaser_loop") => Len(articles) <= max_articles

(* ---- restarts --------------------------------------------------------- *)
\* C16: in scrape_article an attempt that ended in a timeout leaves the
\* session alone, every restart follows a driver-level error of an attempt,
\* and an attempt that follows a driver-level error runs on a session the
\* restart has set up.
C16_RestartBeforeRetry ==
    /\ []((variant = "web" /\ pc = "article" /\ opOutcomes # << >>
            /\ Last(opOutcomes) \in DriverKinds) =>
              DriverLive /\ WaitLive /\ wait = driver)
    /\ [][(op = "article" /\ Len(opOutcomes') = Len(opOutcomes) + 1
            /\ Last(opOutcomes') \in ArticleKinds) =>
              restarts' = restarts /\ driver' = driver /\ quitted' = quitted]_vars
    /\ [][(op = "article" /\ restarts' # restarts) =>
              pc = "article" /\ pc' = "setup" /\ opLog' = opLog + 1]_vars

(* ---- the delay between articles --------------------------------------- *)
\* C17: when the fetch of the url at position idx starts, the delay has
\* occurred after each of the idx - 1 urls before it.
C17_DelayBetweenFetches ==
    (variant = "web" /\ pc = "article") => sleeps = idx - 1

(* ---- sessions --------------------------------------------------------- *)
\* C18: whenever a browser operation is about to be issued, self.driver and
\* self.wait refer to the same session and that session has not been quit.
C18_OperationsOnLiveSession ==
    (variant = "web" /\ pc \in {"links", "scroll", "article"}) =>
        DriverLive /\ WaitLive /\ wait = driver

\* C19: when the run has returned or raised, every session that was created
\* has been quit.
C19_EverySessionQuit ==
    Terminated => \A s \in 1..created : s \in quitted

====
